---- MODULE Spec2Model ----
(***************************************************************************)
(* Finite automata (NFA / DFA), the epsilon-closure matrix and the subset  *)
(* construction of the automata crate (src/automata/src).                  *)
(*                                                                         *)
(* State ids and inputs are Rust Strings.  They are modelled as TLA+       *)
(* strings; the Ord of String that the BTreeMap / BTreeSet iteration uses  *)
(* is given by the position in StateOrder and InputOrder.  The epsilon     *)
(* literal of the source (U+025B) is written "eps".                        *)
(***************************************************************************)
EXTENDS Integers, Sequences, FiniteSets, TLC

\* ---------------------------------------------------------------- bounds
\* number of state ids the callers draw from (the first ones of StateOrder)
MaxState == 2
\* number of distinct things the callers declare: initial states, accepting
\* states and (from, input, to) triples passed to add_transfer_rule
MaxCalls == 3
\* the same two for the runs that only add transitions and query the closure
MaxStateQ == 3
MaxCallsQ == 2
\* number of inputs read by the end-to-end scenario
MaxWord == 6
\* MaxCalls for the transitions of the runs in which to_dfa must terminate
MaxCallsL == 2
\* number of elements the callers of the disjoint set draw from (the first
\* ones of ElementOrder), and number of additions they make
MaxElements == 3

\* ------------------------------------------------------------ value types
Epsilon == "eps"

\* the state ids in the order of String's Ord ("1" < ... < "6" < "X" < "Y")
StateOrder == <<"1", "2", "3", "4", "5", "6", "X", "Y">>
\* the non-epsilon inputs in the order of String's Ord
InputOrder == <<"a", "b">>

States == {StateOrder[i] : i \in 1..MaxState}
StatesQ == {StateOrder[i] : i \in 1..MaxStateQ}
Inputs == {InputOrder[i] : i \in 1..Len(InputOrder)} \cup {Epsilon}

\* Option<T>: None, Some(v)
None == <<>>
Some(v) == <<v>>

\* IResult<T> = Result<T, Error>, and the panic of an unwrap()
Ok(v) == [tag |-> "Ok", value |-> v]
Err(e) == [tag |-> "Err", error |-> e]
Panic == [tag |-> "Panic"]
Unit == <<>>
IsOk(r) == r.tag = "Ok"
IsErr(r, e) == r.tag = "Err" /\ r.error = e
IsPanic(r) == r.tag = "Panic"

\* what a call gave its caller: the function called and its outcome (a
\* Result, the returned value of to_dfa, or a panic)
Returned(f, r) == [call |-> f, res |-> r]
\* the outcome of every call that cannot fail (new, the NFA's add_* calls,
\* calc_epsilon_closure_matrix, drop): nothing but Ok(()) or ()
Plain == Returned("()", Ok(Unit))

\* BTreeMap: a function on its keys
EmptyMap == <<>>
MapInsert(m, k, v) == [x \in (DOMAIN m) \cup {k} |-> IF x = k THEN v ELSE m[x]]
\* mutant: the value of an existing key is overwritten
try_insert_overwriting(m, k, v) == MapInsert(m, k, v)

\* BTreeMap::try_insert / entry(k).or_insert(v): keeps an existing value
try_insert(m, k, v) == IF k \in DOMAIN m THEN m ELSE MapInsert(m, k, v)

\* the elements of a set of state ids / inputs in BTreeSet iteration order
SortedStates(S) == SelectSeq(StateOrder, LAMBDA s : s \in S)
SortedInputs(S) == SelectSeq(InputOrder, LAMBDA s : s \in S)

\* usize::to_string
Digits == <<"0", "1", "2", "3", "4", "5", "6", "7", "8", "9">>
RECURSIVE to_string(_)
to_string(n) ==
    IF n < 10 THEN Digits[n + 1]
    ELSE to_string(n \div 10) \o Digits[(n % 10) + 1]

\* ------------------------------------------------------------------- Edge
with_inputs(inputs) == [input_set |-> inputs]
contains_input(e, input_str) == input_str \in e.input_set
\* mutant: the new input replaces the inputs of the arc
add_input_replacing(e, input_str) == [e EXCEPT !.input_set = {input_str}]
\* mutant: an arc that exists keeps its inputs, the new one is not added
add_input_ignored(e, input_str) == e
add_input(e, input_str) == [e EXCEPT !.input_set = @ \cup {input_str}]

\* -------------------------------------------------------------------- NFA
NFA_new ==
    [initial_states |-> {},
     finite_states |-> {},
     feasible_inputs |-> {},
     adjacency_matrix |-> EmptyMap,
     epsilon_closure_matrix |-> None]

\* ids: the sequence the iterator yields
NFA_add_initial_states(A, ids) ==
    [A EXCEPT !.initial_states = @ \cup {ids[i] : i \in 1..Len(ids)}]

NFA_add_finite_states(A, ids) ==
    [A EXCEPT !.finite_states = @ \cup {ids[i] : i \in 1..Len(ids)}]

\* mutant: the target node is inserted over an existing one
InsertArc_overwriting(adj, from, input, to) ==
    LET m1 == try_insert(adj, from, EmptyMap)
        row == m1[from]
        row2 == IF to \in DOMAIN row
                THEN MapInsert(row, to, add_input(row[to], input))
                ELSE MapInsert(row, to, with_inputs({input}))
        m2 == MapInsert(m1, from, row2)
    IN MapInsert(m2, to, EmptyMap)

\* the graph update shared by NFA::add_transfer_rule and DFA::add_transfer_rule
InsertArc(adj, from, input, to) ==
    LET m1 == try_insert(adj, from, EmptyMap)
        row == m1[from]
        row2 == IF to \in DOMAIN row
                THEN MapInsert(row, to, add_input(row[to], input))
                ELSE MapInsert(row, to, with_inputs({input}))
        m2 == MapInsert(m1, from, row2)
    IN try_insert(m2, to, EmptyMap)

\* mutant: the epsilon literal is recorded like any other input
AddFeasible_with_epsilon(feasible, input) == feasible \cup {input}

AddFeasible(feasible, input) ==
    IF input # Epsilon THEN feasible \cup {input} ELSE feasible

\* mutant: the cached closure matrix survives the new transition
NFA_add_transfer_rule_keeps_index(A, from, input, to) ==
    [A EXCEPT !.feasible_inputs = AddFeasible(@, input),
              !.adjacency_matrix = InsertArc(@, from, input, to)]

NFA_add_transfer_rule(A, from, input, to) ==
    [A EXCEPT !.feasible_inputs = AddFeasible(@, input),
              !.adjacency_matrix = InsertArc(@, from, input, to),
              !.epsilon_closure_matrix = None]

get_all_states(A) == DOMAIN A.adjacency_matrix
get_states_num(A) == Cardinality(DOMAIN A.adjacency_matrix)

\* lines 111-118: closure(s) = {s} and the epsilon successors of s
ClosureSeed(A) ==
    [s \in get_all_states(A) |->
        {k \in DOMAIN A.adjacency_matrix[s] :
            contains_input(A.adjacency_matrix[s][k], Epsilon)} \cup {s}]

\* lines 120-129: the three nested loops over the keys in order, sk outermost;
\* k, i, j are the positions the loops have reached, and m2 is the matrix
\* after the step (bound, so that it is computed once)
RECURSIVE LoopJ(_, _, _, _, _)
LoopJ(m, keys, sk, si, j) ==
    IF j > Len(keys) THEN m
    ELSE CHOOSE r \in {LoopJ(m2, keys, sk, si, j + 1) :
                        m2 \in {IF sk \in m[si] /\ keys[j] \in m[sk]
                                THEN [m EXCEPT ![si] = @ \cup {keys[j]}]
                                ELSE m}} : TRUE

RECURSIVE LoopI(_, _, _, _)
LoopI(m, keys, sk, i) ==
    IF i > Len(keys) THEN m
    ELSE CHOOSE r \in {LoopI(m2, keys, sk, i + 1) :
                        m2 \in {LoopJ(m, keys, sk, keys[i], 1)}} : TRUE

RECURSIVE LoopK(_, _, _)
LoopK(m, keys, k) ==
    IF k > Len(keys) THEN m
    ELSE CHOOSE r \in {LoopK(m2, keys, k + 1) :
                        m2 \in {LoopI(m, keys, keys[k], 1)}} : TRUE

\* mutant: the triple loop is left out
ClosureMatrix_seed_only(A) == ClosureSeed(A)

ClosureMatrix(A) == LoopK(ClosureSeed(A), SortedStates(get_all_states(A)), 1)

\* mutant: a matrix that is already there is replaced by its first hop only
calc_epsilon_closure_matrix_rehop(A) ==
    [A EXCEPT !.epsilon_closure_matrix =
        IF @ # None THEN Some(ClosureSeed(A)) ELSE Some(ClosureMatrix(A))]

calc_epsilon_closure_matrix(A) ==
    [A EXCEPT !.epsilon_closure_matrix = Some(ClosureMatrix(A))]

\* mutant: the queried states are returned as they are
get_epsilon_closure_identity(A, query_states) ==
    IF A.epsilon_closure_matrix # None
    THEN Ok(query_states)
    ELSE Err("Uninitialized")

\* query_states: a set (every caller passes the iterator of a BTreeSet)
get_epsilon_closure(A, query_states) ==
    IF A.epsilon_closure_matrix # None
    THEN LET m == A.epsilon_closure_matrix[1] IN
         IF \E s \in query_states : s \notin DOMAIN m
         THEN Panic
         ELSE Ok(UNION {m[s] : s \in query_states})
    ELSE Err("Uninitialized")

\* mutant: every transition is followed, whatever its inputs
straight_reachable_states_any_input(A, query_states, by_input_str) ==
    UNION {DOMAIN A.adjacency_matrix[s] :
           s \in query_states \cap DOMAIN A.adjacency_matrix}

straight_reachable_states(A, query_states, by_input_str) ==
    UNION {{k \in DOMAIN A.adjacency_matrix[s] :
                contains_input(A.adjacency_matrix[s][k], by_input_str)} :
           s \in query_states \cap DOMAIN A.adjacency_matrix}

\* -------------------------------------------------------------------- DFA
\* DFA::new is todo!(); a DFA value is the struct literal of its public fields
DFA_empty ==
    [initial_state |-> None,
     finite_states |-> {},
     feasible_inputs |-> {},
     adjacency_matrix |-> EmptyMap]

\* DFA::new: the body is todo!(), which panics
DFA_new == Panic

\* mutant: a single id replaces the initial state that is already set
DFA_add_initial_states_replacing(D, ids) ==
    IF Len(ids) = 1
    THEN [res |-> Ok(Unit), dfa |-> [D EXCEPT !.initial_state = Some(ids[1])]]
    ELSE IF D.initial_state # None
         THEN [res |-> Err("UnsupportedOperation"), dfa |-> D]
         ELSE [res |-> Err("IllegalArgument"), dfa |-> D]

\* mutant: of several ids the first one is recorded
DFA_add_initial_states_first_of_many(D, ids) ==
    IF D.initial_state # None
    THEN [res |-> Err("UnsupportedOperation"), dfa |-> D]
    ELSE IF Len(ids) >= 1
         THEN [res |-> Ok(Unit), dfa |-> [D EXCEPT !.initial_state = Some(ids[1])]]
         ELSE [res |-> Err("IllegalArgument"), dfa |-> D]

\* the result and the DFA after the call
DFA_add_initial_states(D, ids) ==
    IF D.initial_state # None
    THEN [res |-> Err("UnsupportedOperation"), dfa |-> D]
    ELSE IF Len(ids) = 1
         THEN [res |-> Ok(Unit), dfa |-> [D EXCEPT !.initial_state = Some(ids[1])]]
         ELSE [res |-> Err("IllegalArgument"), dfa |-> D]

DFA_add_finite_states(D, ids) ==
    [D EXCEPT !.finite_states = @ \cup {ids[i] : i \in 1..Len(ids)}]

DFA_add_transfer_rule(D, from, input, to) ==
    [D EXCEPT !.feasible_inputs = AddFeasible(@, input),
              !.adjacency_matrix = InsertArc(@, from, input, to)]

\* ------------------------------------------------------------ DisjointSet
\* the elements (T = &str) in the order of their Ord
ElementOrder == <<"u", "v", "w", "x", "y", "z">>
Elements == {ElementOrder[Len(ElementOrder) - i] : i \in 0..(MaxElements - 1)}

\* BiBTreeMap::insert: the pairs with the same left or the same right value
\* are removed, then the pair is inserted
BiInsert(m, left, right) ==
    [x \in {k \in DOMAIN m : m[k] # right} \cup {left} |->
        IF x = left THEN right ELSE m[x]]

\* fathers is a Vec<usize>: the father of id is fathers[id + 1]
DisjointSet_new == [elements |-> EmptyMap, fathers |-> <<>>]

add_element(D, element) ==
    LET id == Cardinality(DOMAIN D.elements) IN
    [elements |-> BiInsert(D.elements, element, id),
     fathers |-> Append(D.fathers, id)]

get_element(D, id) ==
    IF \E e \in DOMAIN D.elements : D.elements[e] = id
    THEN Some(CHOOSE e \in DOMAIN D.elements : D.elements[e] = id)
    ELSE None

get_id(D, element) ==
    IF element \in DOMAIN D.elements THEN Some(D.elements[element]) ELSE None

\* the result (a panic when class_element has no id) and the set after the call
add_element_to(D, element, class_element) ==
    LET id == Cardinality(DOMAIN D.elements)
        D1 == [D EXCEPT !.elements = BiInsert(@, element, id)]
        class_element_id == get_id(D1, class_element)
    IN IF class_element_id = None
       THEN [res |-> Panic, ds |-> D1]
       ELSE [res |-> Ok(Unit),
             ds |-> [D1 EXCEPT !.fathers = Append(@, class_element_id[1])]]

\* elements: the sequence the iterator yields; class_id is the id of the first
RECURSIVE add_rest(_, _, _)
add_rest(D, elements, class_id) ==
    IF elements = <<>> THEN D
    ELSE add_rest([elements |-> BiInsert(D.elements, Head(elements),
                                          Cardinality(DOMAIN D.elements)),
                   fathers |-> Append(D.fathers, class_id)],
                  Tail(elements), class_id)

add_elements(D, elements) ==
    IF elements = <<>> THEN D
    ELSE add_rest(add_element(D, Head(elements)), Tail(elements),
                  Cardinality(DOMAIN D.elements))

RECURSIVE get_father_by_id(_, _)
get_father_by_id(D, id) ==
    IF id + 1 \in DOMAIN D.fathers
    THEN IF id = D.fathers[id + 1] THEN Some(id)
         ELSE get_father_by_id(D, D.fathers[id + 1])
    ELSE None

get_father(D, element) ==
    LET element_id == get_id(D, element) IN
    IF element_id = None THEN None
    ELSE LET father_id == get_father_by_id(D, element_id[1]) IN
         IF father_id = None THEN None
         ELSE get_element(D, father_id[1])

\* mutant: the father of id1 itself is set, not the father of its representative
join_by_id_direct(D, id1, id2) ==
    LET f1 == get_father_by_id(D, id1)
        f2 == get_father_by_id(D, id2)
    IN IF f1 # None /\ f2 # None /\ f1 # f2
       THEN [D EXCEPT !.fathers[id1 + 1] = f2[1]]
       ELSE D

join_by_id(D, id1, id2) ==
    LET f1 == get_father_by_id(D, id1)
        f2 == get_father_by_id(D, id2)
    IN IF f1 # None /\ f2 # None /\ f1 # f2
       THEN [D EXCEPT !.fathers[f1[1] + 1] = f2[1]]
       ELSE D

join(D, element1, element2) ==
    LET id1 == get_id(D, element1)
        id2 == get_id(D, element2)
    IN IF id1 # None /\ id2 # None
       THEN join_by_id(D, id1[1], id2[1])
       ELSE D

\* ------------------------------------------------------------------ state
VARIABLES
    variant,        \* which automaton the caller works on: "NFA" or "DFA"
    nfa,            \* the NFA (self)
    dfa,            \* the DFA (self)
    pc,             \* "idle", in to_dfa: "while" / "for", "done", "panicked"
    out,            \* to_dfa: the local dfa (an NFA value)
    search_queue,   \* to_dfa: VecDeque of composite states
    known_states,   \* to_dfa: BTreeMap from composite state to its id
    front_state,    \* to_dfa: Option of the dequeued composite state
    inputs_left,    \* to_dfa: the inputs the for loop has still to visit
    ret,            \* what the most recent call gave its caller
    calls,          \* history: the triples passed to add_transfer_rule
    built,          \* history: "never" (no calc_epsilon_closure_matrix yet),
                    \* "fresh" (it ran, no add_transfer_rule since), "stale"
    script,         \* tests::macro_test: number of statements executed
    word,           \* the inputs read from the automaton macro_test printed
    disjoint_set    \* the DisjointSet<&str> (self)

vars == <<variant, nfa, dfa, pc, out, search_queue, known_states, front_state,
          inputs_left, ret, calls, built, script, word, disjoint_set>>

conv == <<out, search_queue, known_states, front_state, inputs_left>>

InitCommon ==
    /\ nfa = NFA_new
    /\ dfa = DFA_empty
    /\ pc = "idle"
    /\ out = NFA_new
    /\ search_queue = <<>>
    /\ known_states = EmptyMap
    /\ front_state = None
    /\ inputs_left = <<>>
    /\ ret = Plain
    /\ calls = {}
    /\ built = "never"
    /\ script = 0
    /\ word = <<>>
    /\ disjoint_set = DisjointSet_new

Init ==
    /\ variant = "NFA"
    /\ InitCommon

InitBuild ==
    /\ variant \in {"NFA", "DFA"}
    /\ InitCommon

\* the iterators a caller passes
IdSeqs1 == {<<>>} \cup {<<s>> : s \in States}
IdSeqs2 == IdSeqs1 \cup {<<s, t>> : s, t \in States}

\* the number of distinct things declared on the NFA A / the DFA D by the
\* calls so far, triples being the triples passed to add_transfer_rule
Declared(A, triples) ==
    Cardinality(A.initial_states) + Cardinality(A.finite_states)
        + Cardinality(triples)
DeclaredDfa(D, triples) ==
    Len(D.initial_state) + Cardinality(D.finite_states) + Cardinality(triples)

\* ------------------------------------------------------------ NFA actions
AddInitialStates(ids) ==
    /\ variant = "NFA" /\ pc = "idle"
    /\ nfa' = NFA_add_initial_states(nfa, ids)
    /\ Declared(nfa', calls) <= MaxCalls
    /\ ret' = Plain
    /\ UNCHANGED <<variant, disjoint_set, dfa, pc, conv, calls, built, script, word>>

AddFiniteStates(ids) ==
    /\ variant = "NFA" /\ pc = "idle"
    /\ nfa' = NFA_add_finite_states(nfa, ids)
    /\ Declared(nfa', calls) <= MaxCalls
    /\ ret' = Plain
    /\ UNCHANGED <<variant, disjoint_set, dfa, pc, conv, calls, built, script, word>>

\* limit: MaxCalls, MaxCallsQ or MaxCallsL
AddTransferRule(from, input, to, limit) ==
    /\ variant = "NFA" /\ pc = "idle"
    /\ Declared(nfa, calls \cup {<<from, input, to>>}) <= limit
    /\ nfa' = NFA_add_transfer_rule(nfa, from, input, to)
    /\ calls' = calls \cup {<<from, input, to>>}
    /\ built' = IF built = "never" THEN "never" ELSE "stale"
    /\ ret' = Plain
    /\ UNCHANGED <<variant, disjoint_set, dfa, pc, conv, script, word>>

CalcEpsilonClosureMatrix ==
    /\ variant = "NFA" /\ pc = "idle"
    /\ nfa' = calc_epsilon_closure_matrix(nfa)
    /\ built' = "fresh"
    /\ ret' = Plain
    /\ UNCHANGED <<variant, disjoint_set, dfa, pc, conv, calls, script, word>>

GetEpsilonClosure(query_states) ==
    /\ variant = "NFA" /\ pc = "idle"
    /\ ret' = Returned("get_epsilon_closure", get_epsilon_closure(nfa, query_states))
    /\ pc' = IF IsPanic(ret'.res) THEN "panicked" ELSE "idle"
    /\ UNCHANGED <<variant, disjoint_set, nfa, dfa, conv, calls, built, script, word>>

\* to_dfa, lines 163-170
ToDfaEnter ==
    /\ variant = "NFA" /\ pc = "idle"
    /\ LET start_state == get_epsilon_closure(nfa, nfa.initial_states) IN
       IF start_state.tag = "Ok"
       THEN /\ search_queue' = <<start_state.value>>
            /\ known_states' = MapInsert(EmptyMap, start_state.value, "0")
            /\ out' = NFA_add_initial_states(NFA_new, <<"0">>)
            /\ front_state' = None
            /\ inputs_left' = <<>>
            /\ pc' = "while"
            /\ ret' = Returned("to_dfa", [tag |-> "Running"])
       ELSE \* unwrap() of the Err, or the unwrap() inside get_epsilon_closure
            /\ pc' = "panicked"
            /\ ret' = Returned("to_dfa", [tag |-> "Panic", cause |-> start_state])
            /\ UNCHANGED conv
    /\ UNCHANGED <<variant, disjoint_set, nfa, dfa, calls, built, word>>

ToDfaBegin == ToDfaEnter /\ UNCHANGED script

\* mutant: the front of the queue is read but not removed
ToDfaPop_peeking ==
    /\ pc = "while" /\ search_queue # <<>>
    /\ front_state' = Some(Head(search_queue))
    /\ inputs_left' = SortedInputs(nfa.feasible_inputs)
    /\ pc' = IF inputs_left' = <<>> THEN "while" ELSE "for"
    /\ UNCHANGED <<variant, disjoint_set, nfa, dfa, out, search_queue, known_states, ret,
                   calls, built, script, word>>

\* to_dfa, lines 172-173 and the start of the for loop at 175
ToDfaPop ==
    /\ pc = "while" /\ search_queue # <<>>
    /\ front_state' = Some(Head(search_queue))
    /\ search_queue' = Tail(search_queue)
    /\ inputs_left' = SortedInputs(nfa.feasible_inputs)
    /\ pc' = IF inputs_left' = <<>> THEN "while" ELSE "for"
    /\ UNCHANGED <<variant, disjoint_set, nfa, dfa, out, known_states, ret, calls, built, script, word>>

\* to_dfa, lines 176-193: one iteration of the for loop
ToDfaInput ==
    /\ pc = "for" /\ inputs_left # <<>>
    /\ LET input == Head(inputs_left)
           new_front_state_id == known_states[front_state[1]]
           j == straight_reachable_states(nfa, front_state[1], input)
           closure == get_epsilon_closure(nfa, j)
       IN IF closure.tag = "Ok"
          THEN LET transfered_state == closure.value
                   num_known_states == Cardinality(DOMAIN known_states)
                   known == try_insert(known_states, transfered_state,
                                       to_string(num_known_states))
                   transfered_state_id == known[transfered_state]
                   dfa1 == NFA_add_transfer_rule(out, new_front_state_id, input,
                                                 transfered_state_id)
               IN /\ search_queue' =
                        IF transfered_state \notin DOMAIN known_states
                        THEN Append(search_queue, transfered_state)
                        ELSE search_queue
                  /\ known_states' = known
                  /\ out' = IF \E s \in nfa.finite_states : s \in transfered_state
                            THEN NFA_add_finite_states(dfa1, <<transfered_state_id>>)
                            ELSE dfa1
                  /\ inputs_left' = Tail(inputs_left)
                  /\ pc' = IF inputs_left' = <<>> THEN "while" ELSE "for"
                  /\ UNCHANGED <<front_state, ret>>
          ELSE /\ pc' = "panicked"
               /\ ret' = Returned("to_dfa", [tag |-> "Panic", cause |-> closure])
               /\ UNCHANGED conv
    /\ UNCHANGED <<variant, disjoint_set, nfa, dfa, calls, built, script, word>>

\* mutant: the conversion drops the closure matrix of the source on return
ToDfaReturn_invalidating ==
    /\ pc = "while" /\ search_queue = <<>>
    /\ pc' = "done"
    /\ ret' = Returned("to_dfa", [tag |-> "Value", value |-> out])
    /\ nfa' = [nfa EXCEPT !.epsilon_closure_matrix = None]
    /\ UNCHANGED <<variant, disjoint_set, dfa, conv, calls, built, script, word>>

\* to_dfa, lines 196-197: the queue is empty, the local dfa is returned
ToDfaReturn ==
    /\ pc = "while" /\ search_queue = <<>>
    /\ pc' = "done"
    /\ ret' = Returned("to_dfa", [tag |-> "Value", value |-> out])
    /\ UNCHANGED <<variant, disjoint_set, nfa, dfa, conv, calls, built, script, word>>

\* the caller drops the returned automaton and goes on
Drop ==
    /\ pc = "done" /\ script = 0
    /\ pc' = "idle"
    /\ out' = NFA_new
    /\ search_queue' = <<>>
    /\ known_states' = EmptyMap
    /\ front_state' = None
    /\ inputs_left' = <<>>
    /\ ret' = Plain
    /\ UNCHANGED <<variant, disjoint_set, nfa, dfa, calls, built, script, word>>

\* ------------------------------------------------------------ DFA actions
DfaAddInitialStates(ids) ==
    /\ variant = "DFA" /\ pc = "idle"
    /\ LET r == DFA_add_initial_states(dfa, ids) IN
       /\ dfa' = r.dfa
       /\ ret' = Returned("add_initial_states", r.res)
    /\ DeclaredDfa(dfa', calls) <= MaxCalls
    /\ UNCHANGED <<variant, disjoint_set, nfa, pc, conv, calls, built, script, word>>

DfaAddFiniteStates(ids) ==
    /\ variant = "DFA" /\ pc = "idle"
    /\ dfa' = DFA_add_finite_states(dfa, ids)
    /\ DeclaredDfa(dfa', calls) <= MaxCalls
    /\ ret' = Plain
    /\ UNCHANGED <<variant, disjoint_set, nfa, pc, conv, calls, built, script, word>>

DfaAddTransferRule(from, input, to) ==
    /\ variant = "DFA" /\ pc = "idle"
    /\ DeclaredDfa(dfa, calls \cup {<<from, input, to>>}) <= MaxCalls
    /\ dfa' = DFA_add_transfer_rule(dfa, from, input, to)
    /\ calls' = calls \cup {<<from, input, to>>}
    /\ ret' = Plain
    /\ UNCHANGED <<variant, disjoint_set, nfa, pc, conv, built, script, word>>

\* ----------------------------------------------------------- construction
\* the caller replaces its automaton by a new one
NfaNew ==
    /\ variant = "NFA" /\ pc = "idle"
    /\ nfa' = NFA_new
    /\ calls' = {}
    /\ built' = "never"
    /\ ret' = Returned("new", [tag |-> "Value", value |-> NFA_new])
    /\ UNCHANGED <<variant, disjoint_set, dfa, pc, conv, script, word>>

DfaNew ==
    /\ variant = "DFA" /\ pc = "idle"
    /\ ret' = Returned("new", DFA_new)
    /\ pc' = "panicked"
    /\ UNCHANGED <<variant, disjoint_set, nfa, dfa, conv, calls, built, script, word>>

\* the sets a caller queries: none, one or two states
QuerySets == {{}} \cup {{s, t} : s, t \in StatesQ}

\* ------------------------------------------------------ tests::macro_test
\* the statements of macro_test, the nfa! macro expanded (lines 236-253)
Rule(from, input, to) ==
    [op |-> "add_transfer_rule", from |-> from, input |-> input, to |-> to]
MacroTest ==
    << [op |-> "add_initial_states", ids |-> <<"X">>],
       [op |-> "add_finite_states", ids |-> <<"Y">>],
       Rule("X", Epsilon, "5"),
       Rule("5", "a", "5"),
       Rule("5", "b", "5"),
       Rule("5", Epsilon, "1"),
       Rule("1", "a", "3"),
       Rule("3", "a", "2"),
       Rule("1", "b", "4"),
       Rule("4", "b", "2"),
       Rule("2", Epsilon, "6"),
       Rule("6", "a", "6"),
       Rule("6", "b", "6"),
       Rule("6", Epsilon, "Y"),
       [op |-> "calc_epsilon_closure_matrix"],
       [op |-> "to_dfa"] >>

Statement == MacroTest[script + 1]

TestAddStates ==
    /\ pc = "idle" /\ script < Len(MacroTest)
    /\ Statement.op \in {"add_initial_states", "add_finite_states"}
    /\ nfa' = IF Statement.op = "add_initial_states"
              THEN NFA_add_initial_states(nfa, Statement.ids)
              ELSE NFA_add_finite_states(nfa, Statement.ids)
    /\ ret' = Plain
    /\ script' = script + 1
    /\ UNCHANGED <<variant, disjoint_set, dfa, pc, conv, calls, built, word>>

TestAddTransferRule ==
    /\ pc = "idle" /\ script < Len(MacroTest)
    /\ Statement.op = "add_transfer_rule"
    /\ nfa' = NFA_add_transfer_rule(nfa, Statement.from, Statement.input, Statement.to)
    /\ calls' = calls \cup {<<Statement.from, Statement.input, Statement.to>>}
    /\ built' = IF built = "never" THEN "never" ELSE "stale"
    /\ ret' = Plain
    /\ script' = script + 1
    /\ UNCHANGED <<variant, disjoint_set, dfa, pc, conv, word>>

TestCalc ==
    /\ pc = "idle" /\ script < Len(MacroTest)
    /\ Statement.op = "calc_epsilon_closure_matrix"
    /\ nfa' = calc_epsilon_closure_matrix(nfa)
    /\ built' = "fresh"
    /\ ret' = Plain
    /\ script' = script + 1
    /\ UNCHANGED <<variant, disjoint_set, dfa, pc, conv, calls, word>>

TestToDfa ==
    /\ script < Len(MacroTest)
    /\ Statement.op = "to_dfa"
    /\ ToDfaEnter
    /\ script' = script + 1

\* one more input is read from the automaton to_dfa returned
ReadInput(input) ==
    /\ pc = "done" /\ script = Len(MacroTest)
    /\ Len(word) < MaxWord
    /\ word' = Append(word, input)
    /\ UNCHANGED <<variant, disjoint_set, nfa, dfa, pc, conv, ret, calls, built, script>>

\* ---------------------------------------------------- DisjointSet actions
\* what the calls on the disjoint set leave alone
automata == <<variant, nfa, dfa, conv, calls, built, script, word>>

AddElement(element) ==
    /\ pc = "idle"
    /\ Len(disjoint_set.fathers) < MaxElements
    /\ disjoint_set' = add_element(disjoint_set, element)
    /\ ret' = Plain
    /\ UNCHANGED <<pc, automata>>

AddElementTo(element, class_element) ==
    /\ pc = "idle"
    /\ Len(disjoint_set.fathers) < MaxElements
    /\ LET r == add_element_to(disjoint_set, element, class_element) IN
       /\ disjoint_set' = r.ds
       /\ ret' = Returned("add_element_to", r.res)
       /\ pc' = IF IsPanic(r.res) THEN "panicked" ELSE "idle"
    /\ UNCHANGED automata

AddElements(elements) ==
    /\ pc = "idle"
    /\ Len(disjoint_set.fathers) + Len(elements) <= MaxElements
    /\ disjoint_set' = add_elements(disjoint_set, elements)
    /\ ret' = Plain
    /\ UNCHANGED <<pc, automata>>

Join(element1, element2) ==
    /\ pc = "idle"
    /\ disjoint_set' = join(disjoint_set, element1, element2)
    /\ ret' = Returned("join", Ok(Unit))
    /\ UNCHANGED <<pc, automata>>

\* the iterators a caller passes to add_elements
ElementSeqs ==
    {<<>>} \cup {<<e>> : e \in Elements} \cup {<<e, f>> : e, f \in Elements}

\* --------------------------------------------------------- specifications
\* an NFA is built, its closure matrix computed, and converted
Next ==
    \/ \E ids \in IdSeqs1 : AddInitialStates(ids)
    \/ \E ids \in IdSeqs1 : AddFiniteStates(ids)
    \/ \E from \in States, input \in Inputs, to \in States :
            AddTransferRule(from, input, to, MaxCalls)
    \/ CalcEpsilonClosureMatrix
    \/ ToDfaBegin
    \/ ToDfaPop
    \/ ToDfaInput
    \/ ToDfaReturn
    \/ Drop

Spec == Init /\ [][Next]_vars

\* the same, to_dfa being a synchronous call: once entered, its loop goes on
\* until it returns or panics
NextLive ==
    \/ \E ids \in IdSeqs1 : AddInitialStates(ids)
    \/ \E ids \in IdSeqs1 : AddFiniteStates(ids)
    \/ \E from \in States, input \in Inputs, to \in States :
            AddTransferRule(from, input, to, MaxCallsL)
    \/ CalcEpsilonClosureMatrix
    \/ ToDfaBegin
    \/ ToDfaPop
    \/ ToDfaInput
    \/ ToDfaReturn
    \/ Drop

SpecLive ==
    /\ Init /\ [][NextLive]_vars
    /\ WF_vars(ToDfaPop)
    /\ WF_vars(ToDfaInput)
    /\ WF_vars(ToDfaReturn)

\* the transitions of an NFA are added, its closure matrix computed and queried
NextQuery ==
    \/ \E from \in StatesQ, input \in Inputs, to \in StatesQ :
            AddTransferRule(from, input, to, MaxCallsQ)
    \/ CalcEpsilonClosureMatrix
    \/ \E query_states \in QuerySets : GetEpsilonClosure(query_states)

SpecQuery == Init /\ [][NextQuery]_vars

\* an automaton of either variant is built
NextBuild ==
    \/ \E ids \in IdSeqs1 : AddInitialStates(ids)
    \/ \E ids \in IdSeqs1 : AddFiniteStates(ids)
    \/ \E from \in States, input \in Inputs, to \in States :
            AddTransferRule(from, input, to, MaxCalls)
    \/ \E ids \in IdSeqs2 : DfaAddInitialStates(ids)
    \/ \E ids \in IdSeqs1 : DfaAddFiniteStates(ids)
    \/ \E from \in States, input \in Inputs, to \in States :
            DfaAddTransferRule(from, input, to)

SpecBuild == InitBuild /\ [][NextBuild]_vars

\* an automaton of either variant is built, or constructed anew
NextNew ==
    \/ NextBuild
    \/ NfaNew
    \/ DfaNew

SpecNew == InitBuild /\ [][NextNew]_vars

\* macro_test runs, and the automaton it prints is fed inputs
NextTest ==
    \/ TestAddStates
    \/ TestAddTransferRule
    \/ TestCalc
    \/ TestToDfa
    \/ ToDfaPop
    \/ ToDfaInput
    \/ ToDfaReturn
    \/ \E input \in {"a", "b"} : ReadInput(input)

SpecTest == Init /\ [][NextTest]_vars

\* a disjoint set is filled and its classes joined
NextDisjoint ==
    \/ \E element \in Elements : AddElement(element)
    \/ \E element, class_element \in Elements :
            AddElementTo(element, class_element)
    \/ \E elements \in ElementSeqs : AddElements(elements)
    \/ \E element1, element2 \in Elements : Join(element1, element2)

SpecDisjoint == Init /\ [][NextDisjoint]_vars

\* ------------------------------------------------------------- claims
\* the composite states discovered by to_dfa, and the id of one
Known == DOMAIN known_states
IdOf(S) == known_states[S]

\* the destinations of the transitions from state id under input in A
Destinations(A, id, input) ==
    IF id \in DOMAIN A.adjacency_matrix
    THEN {d \in DOMAIN A.adjacency_matrix[id] :
            contains_input(A.adjacency_matrix[id][d], input)}
    ELSE {}

\* C1: when to_dfa has completed, the id of every discovered composite state
\* (the start set "0" included) is accepting in the output if and only if the
\* composite state shares a state with the accepting set of the source NFA.
C1_AcceptancePreserved ==
    pc = "done" =>
        \A S \in Known :
            (IdOf(S) \in out.finite_states) <=> (S \cap nfa.finite_states # {})

\* the states A is in after reading the inputs of w from the states of S
RECURSIVE RunFrom(_, _, _)
RunFrom(A, S, w) ==
    IF w = <<>> THEN S
    ELSE RunFrom(A, UNION {Destinations(A, s, Head(w)) : s \in S}, Tail(w))

\* w is a concatenation of blocks "aa" and "bb"
IsBlocks(w) ==
    /\ Len(w) % 2 = 0
    /\ \A i \in 1..Len(w) : i % 2 = 1 => w[i] = w[i + 1]

Accepts(A, w) ==
    /\ RunFrom(A, A.initial_states, w) # {}
    /\ RunFrom(A, A.initial_states, w) \subseteq A.finite_states

\* C2 as stated: the automaton to_dfa returns for the NFA of macro_test has the
\* single initial state "0" and ends in an accepting state on every
\* concatenation of zero or more blocks "aa" and "bb", the empty one included.
C2_BlocksAcceptedOriginal ==
    pc = "done" =>
        /\ out.initial_states = {"0"}
        /\ IsBlocks(word) => Accepts(out, word)

\* C2, amended: the automaton to_dfa returns for the NFA of macro_test has the
\* single initial state "0" and ends in an accepting state on every
\* concatenation of one or more blocks "aa" and "bb".
C2_BlocksAccepted ==
    pc = "done" =>
        /\ out.initial_states = {"0"}
        /\ (IsBlocks(word) /\ word # <<>>) => Accepts(out, word)

\* the blocks "bb" "aa" were read
C2_Witness ==
    /\ pc = "done"
    /\ word = <<"b", "b", "a", "a">>
    /\ Accepts(out, word)

\* C3: when to_dfa has completed, the output has exactly one initial state,
\* and every discovered composite state has, for every input of the source
\* alphabet, exactly one destination whose transition set holds that input.
C3_Totality ==
    pc = "done" =>
        /\ Cardinality(out.initial_states) = 1
        /\ \A S \in Known : \A input \in nfa.feasible_inputs :
                Cardinality(Destinations(out, IdOf(S), input)) = 1

\* a conversion over the alphabet {a, b} that discovered three composite states
C3_Witness ==
    /\ pc = "done"
    /\ nfa.feasible_inputs = {"a", "b"}
    /\ Cardinality(Known) >= 3

\* C4: when to_dfa has completed, the id of every discovered composite state
\* is a graph node of the output; for a source NFA with an empty alphabet the
\* output is the single node "0" without transitions.
C4_KnownAreNodes ==
    pc = "done" =>
        /\ \A S \in Known : IdOf(S) \in get_all_states(out)
        /\ nfa.feasible_inputs = {} =>
                /\ get_all_states(out) = {"0"}
                /\ get_states_num(out) = 1
                /\ DOMAIN out.adjacency_matrix["0"] = {}

\* C5: to_dfa on an NFA without closure matrix returns the Uninitialized
\* failure to its caller: it neither aborts nor produces an automaton.
C5_UninitializedReturned ==
    (ret.call = "to_dfa" /\ nfa.epsilon_closure_matrix = None) =>
        /\ pc # "panicked"
        /\ IsErr(ret.res, "Uninitialized")

\* the automaton the caller builds, its initial states and its graph nodes
Auto == IF variant = "NFA" THEN nfa ELSE dfa
InitialOf ==
    IF variant = "NFA" THEN nfa.initial_states
    ELSE {dfa.initial_state[i] : i \in 1..Len(dfa.initial_state)}
\* the inputs that label some transition of A
Labels(A) ==
    UNION {A.adjacency_matrix[s][t].input_set :
             <<s, t>> \in {<<x, y>> \in (DOMAIN A.adjacency_matrix) \X (DOMAIN A.adjacency_matrix) :
                             y \in DOMAIN A.adjacency_matrix[x]}}

C7_EveryStateIsNode ==
    InitialOf \cup Auto.finite_states
        \cup {c[1] : c \in calls} \cup {c[3] : c \in calls}
            \subseteq DOMAIN Auto.adjacency_matrix

\* the states reachable from S by zero or more transitions whose label set
\* contains epsilon: a traversal of the graph of A
EpsilonSuccessors(A, S) ==
    S \cup UNION {{t \in DOMAIN A.adjacency_matrix[s] :
                      Epsilon \in A.adjacency_matrix[s][t].input_set} :
                  s \in S \cap DOMAIN A.adjacency_matrix}
RECURSIVE EpsilonReachable(_, _)
EpsilonReachable(A, S) ==
    IF EpsilonSuccessors(A, S) = S THEN S
    ELSE EpsilonReachable(A, EpsilonSuccessors(A, S))

NfaStates(A) == get_all_states(A) \cup A.initial_states \cup A.finite_states

\* C9: once calc_epsilon_closure_matrix has run and no transition was added
\* since, get_epsilon_closure succeeds for every set of states of the NFA,
\* returns the union of the closures of its members, and contains them.
C9_QuerySucceeds ==
    (pc = "idle" /\ built = "fresh") =>
        \A Q \in SUBSET NfaStates(nfa) :
            LET r == get_epsilon_closure(nfa, Q) IN
            /\ IsOk(r)
            /\ r.value = UNION {get_epsilon_closure(nfa, {s}).value : s \in Q}
            /\ Q \subseteq r.value

\* C10: feasible_inputs is exactly the set of inputs other than the epsilon
\* literal that label some transition of the graph, which is the set of such
\* inputs among the triples passed to add_transfer_rule, in whatever order.
C10_FeasibleInputs ==
    /\ Auto.feasible_inputs = Labels(Auto) \ {Epsilon}
    /\ Auto.feasible_inputs = {c[2] : c \in calls} \ {Epsilon}
    /\ Epsilon \notin Auto.feasible_inputs

\* two inputs and the epsilon literal were passed
C10_Witness ==
    /\ Auto.feasible_inputs = {"a", "b"}
    /\ \E c \in calls : c[2] = Epsilon

\* the arcs of s in A are still arcs of s in B, with at least the same inputs
KeepsArcs(A, B, s) ==
    /\ s \in DOMAIN B.adjacency_matrix
    /\ \A t \in DOMAIN A.adjacency_matrix[s] :
            /\ t \in DOMAIN B.adjacency_matrix[s]
            /\ A.adjacency_matrix[s][t].input_set
                    \subseteq B.adjacency_matrix[s][t].input_set

\* C11: after every add_transfer_rule(from, input, to) both from and to are
\* graph nodes (also when from equals to, and when neither was declared
\* initial or accepting), and no node loses its outgoing transitions.
C11_NodeSynthesis ==
    [][/\ \A c \in calls' : {c[1], c[3]} \subseteq get_all_states(Auto')
       /\ \A s \in get_all_states(Auto) : KeepsArcs(Auto, Auto', s)]_vars

\* a transition into a node that has a loop and another outgoing transition,
\* neither endpoint declared initial or accepting
C11_Witness ==
    /\ InitialOf \cup Auto.finite_states = {}
    /\ \E c, d \in calls :
            /\ c[1] = c[3]
            /\ d[3] = c[1] /\ d[1] # c[1]
            /\ Cardinality(DOMAIN Auto.adjacency_matrix[c[1]]) >= 2

\* C12: the initial state of a DFA is absent or a single id; once it is set,
\* every later add_initial_states call, whatever the number of its ids, fails
\* with UnsupportedOperation and leaves the initial state as it was.
C12_SecondInitialRejected ==
    [][/\ Len(dfa'.initial_state) <= 1
       /\ dfa.initial_state # None =>
            /\ dfa'.initial_state = dfa.initial_state
            /\ ret'.call = "add_initial_states" =>
                    IsErr(ret'.res, "UnsupportedOperation")
            /\ \A ids \in IdSeqs2 :
                    DFA_add_initial_states(dfa, ids)
                        = [res |-> Err("UnsupportedOperation"), dfa |-> dfa]]_vars

\* a call was rejected because the initial state is set
C12_Witness ==
    /\ variant = "DFA"
    /\ dfa.initial_state # None
    /\ ret = Returned("add_initial_states", Err("UnsupportedOperation"))

\* C13: on a DFA without initial state, add_initial_states with no id or with
\* two or more ids fails with IllegalArgument and leaves the DFA as it was, so
\* that a later call with exactly one id succeeds and records that id.
C13_IllegalArgument ==
    (variant = "DFA" /\ dfa.initial_state = None) =>
        \A ids \in IdSeqs2 :
            Len(ids) # 1 =>
                LET r == DFA_add_initial_states(dfa, ids) IN
                /\ r = [res |-> Err("IllegalArgument"), dfa |-> dfa]
                /\ \A s \in States :
                        DFA_add_initial_states(r.dfa, <<s>>)
                            = [res |-> Ok(Unit),
                               dfa |-> [dfa EXCEPT !.initial_state = Some(s)]]

\* a call with no id or several was rejected on a DFA that has transitions
C13_Witness ==
    /\ variant = "DFA"
    /\ dfa.initial_state = None
    /\ ret = Returned("add_initial_states", Err("IllegalArgument"))
    /\ get_states_num(dfa) >= 2

\* C14: new() of either variant succeeds and yields an empty automaton: no
\* initial state, no accepting state, an empty alphabet, no graph node and,
\* for the NFA, no closure matrix.
C14_NewIsEmpty ==
    ret.call = "new" =>
        /\ ret.res.tag = "Value"
        /\ pc # "panicked"
        /\ LET A == ret.res.value IN
           /\ IF variant = "NFA"
              THEN A.initial_states = {} /\ A.epsilon_closure_matrix = None
              ELSE A.initial_state = None
           /\ A.finite_states = {}
           /\ A.feasible_inputs = {}
           /\ get_states_num(A) = 0

\* the number of composite states dequeued so far: the last one dequeued has
\* the id of that number minus one
Dequeued ==
    IF front_state = None THEN 0
    ELSE 1 + CHOOSE i \in 0..(Cardinality(Known) - 1) :
                to_string(i) = IdOf(front_state[1])

\* C15: during to_dfa the known map is injective and its ids are exactly the
\* decimal strings "0" .. "n-1" for n known sets; the start set has "0", a
\* newly discovered set gets the number of sets known at that moment, and the
\* queue holds, in id order, exactly the known sets not yet dequeued (each set
\* is enqueued once and dequeued in increasing id order); the inputs are
\* tried in their order.
C15_SequentialIds ==
    /\ [](pc \in {"while", "for", "done"} =>
            /\ \A S, T \in Known : IdOf(S) = IdOf(T) => S = T
            /\ {IdOf(S) : S \in Known}
                    = {to_string(i) : i \in 0..(Cardinality(Known) - 1)}
            /\ \E S \in Known :
                    /\ IdOf(S) = "0"
                    /\ Ok(S) = get_epsilon_closure(nfa, nfa.initial_states)
            /\ Len(search_queue) = Cardinality(Known) - Dequeued
            /\ \A k \in 1..Len(search_queue) :
                    /\ search_queue[k] \in Known
                    /\ IdOf(search_queue[k]) = to_string(Dequeued + k - 1)
            /\ LET all == SortedInputs(nfa.feasible_inputs) IN
               \E k \in 0..Len(all) : inputs_left = SubSeq(all, k + 1, Len(all)))
    /\ [][\A S \in DOMAIN known_states' :
            known_states'[S] = IF S \in Known THEN IdOf(S)
                               ELSE to_string(Cardinality(Known))]_vars

\* the second composite state is being expanded, a third one waits in the
\* queue and one input is still to be tried
C15_Witness ==
    /\ pc = "for"
    /\ IdOf(front_state[1]) = "1"
    /\ Cardinality(Known) = 3
    /\ Len(search_queue) = 1
    /\ Len(inputs_left) = 1

C17_SourceUnchanged ==
    [][(pc # "idle" \/ pc' # "idle") =>
            /\ nfa'.initial_states = nfa.initial_states
            /\ nfa'.finite_states = nfa.finite_states
            /\ nfa'.feasible_inputs = nfa.feasible_inputs
            /\ nfa'.adjacency_matrix = nfa.adjacency_matrix
            /\ nfa'.epsilon_closure_matrix = nfa.epsilon_closure_matrix]_vars

\* a conversion returned an automaton with transitions and an accepting state
\* for a source that has its closure matrix
C17_Witness ==
    /\ pc = "done"
    /\ nfa.epsilon_closure_matrix # None
    /\ get_states_num(nfa) >= 2
    /\ get_states_num(out) >= 2
    /\ out.finite_states # {}

\* the transitions of A as triples (from, input, to)
Arcs(A) ==
    UNION {UNION {{<<s, input, t>> : input \in A.adjacency_matrix[s][t].input_set} :
                    t \in DOMAIN A.adjacency_matrix[s]} :
           s \in DOMAIN A.adjacency_matrix}

\* the composite state that follows S under input: the epsilon closure of the
\* destinations of the transitions from the states of S that hold input
Target(S, input) ==
    EpsilonReachable(nfa, UNION {Destinations(nfa, s, input) : s \in S})

\* C18: when to_dfa has completed, the transitions of the output are exactly
\* i --a--> j for every discovered composite state S with id i and every input
\* a of the alphabet, j being the id of the closure of the states directly
\* reachable from S under a (the empty set has an id of its own); no
\* transition of the output is labelled with the epsilon literal.
C18_OutputTransitions ==
    pc = "done" =>
        /\ \A S \in Known : \A input \in nfa.feasible_inputs :
                Target(S, input) \in Known
        /\ Arcs(out) = {<<IdOf(x[1]), x[2], IdOf(Target(x[1], x[2]))>> :
                            x \in Known \X nfa.feasible_inputs}
        /\ \A arc \in Arcs(out) : arc[2] # Epsilon

\* a conversion of an NFA with an epsilon transition that reached the empty
\* composite state from a composite state of two states
C18_Witness ==
    /\ pc = "done"
    /\ {} \in Known
    /\ \E S \in Known : Cardinality(S) >= 2
    /\ \E arc \in Arcs(nfa) : arc[2] = Epsilon
    /\ Cardinality(Arcs(out)) >= 3

\* the inputs passed to add_transfer_rule together with the pair (s, t)
PairInputs(s, t) == {c[2] : c \in {d \in calls : d[1] = s /\ d[3] = t}}

\* the automaton after add_transfer_rule is called with the triple c
Again(c) ==
    IF variant = "NFA" THEN NFA_add_transfer_rule(nfa, c[1], c[2], c[3])
    ELSE DFA_add_transfer_rule(dfa, c[1], c[2], c[3])

\* C19: for every ordered pair (from, to) the graph holds at most one
\* transition set; the set is not empty and is exactly the set of inputs
\* passed to add_transfer_rule with that pair, and a call repeated with the
\* same triple changes neither the graph nor the alphabet.
C19_TransitionSets ==
    /\ \A s \in get_all_states(Auto) : \A t \in DOMAIN Auto.adjacency_matrix[s] :
            /\ Auto.adjacency_matrix[s][t].input_set # {}
            /\ Auto.adjacency_matrix[s][t].input_set = PairInputs(s, t)
    /\ \A c \in calls :
            /\ c[1] \in get_all_states(Auto)
            /\ c[3] \in DOMAIN Auto.adjacency_matrix[c[1]]
            /\ Again(c).adjacency_matrix = Auto.adjacency_matrix
            /\ Again(c).feasible_inputs = Auto.feasible_inputs

\* a pair with two inputs, the epsilon literal among them, next to another pair
C19_Witness ==
    \E s \in get_all_states(Auto) : \E t \in DOMAIN Auto.adjacency_matrix[s] :
        /\ Cardinality(Auto.adjacency_matrix[s][t].input_set) = 2
        /\ Epsilon \in Auto.adjacency_matrix[s][t].input_set
        /\ Cardinality(calls) = 3

\* C20: the worklist loop of to_dfa, once entered (the closure matrix is built
\* and the initial states are graph nodes), terminates: the queue becomes
\* empty and to_dfa returns, after at most 2^n dequeues for n graph nodes,
\* every composite state being a set of graph nodes known at most once.
C20_Terminates ==
    /\ [](pc \in {"while", "for", "done"} =>
            /\ \A S \in Known : S \subseteq get_all_states(nfa)
            /\ Cardinality(Known) <= 2 ^ get_states_num(nfa)
            /\ Dequeued <= 2 ^ get_states_num(nfa))
    /\ (pc \in {"while", "for"}) ~> (pc = "done" /\ search_queue = <<>>)

\* a conversion that returned after three dequeues
C20_Witness ==
    /\ pc = "done"
    /\ search_queue = <<>>
    /\ nfa.initial_states # {}
    /\ Dequeued = 3

\* the elements of D, and whether they were added as distinct elements: every
\* addition gave a new id, so that fathers has one entry per element
Present(D) == DOMAIN D.elements
AddedDistinct(D) == Len(D.fathers) = Cardinality(Present(D))

\* C21: in a DisjointSet of distinct elements, after join(a, b) on two present
\* elements get_father(a) equals get_father(b) and is the representative the
\* class of b had before; every element that had the representative of a
\* before has that one now, and the elements of other classes keep theirs.
\* (before, after: get_father of every element before and after the step,
\* bound so that they are computed once per step)
C21_JoinMergesClasses ==
    [][(ret'.call = "join" /\ AddedDistinct(disjoint_set)) =>
        \A before \in {[e \in Present(disjoint_set) |-> get_father(disjoint_set, e)]} :
        \A after \in {[e \in Present(disjoint_set) |-> get_father(disjoint_set', e)]} :
        \A a, b \in Present(disjoint_set) :
            disjoint_set' = join(disjoint_set, a, b) =>
                /\ before[b] # None
                /\ after[a] = after[b]
                /\ after[b] = before[b]
                /\ \A e \in Present(disjoint_set) :
                        after[e] = IF before[e] = before[a] THEN before[b]
                                   ELSE before[e]]_vars

\* the scenario of tests::test: x and y added, z added to x, then join(x, y);
\* x, y and z have the father y
C21_Witness ==
    /\ ret.call = "join"
    /\ disjoint_set.elements = [e \in {"x", "y", "z"} |->
                                  IF e = "x" THEN 0 ELSE IF e = "y" THEN 1 ELSE 2]
    /\ disjoint_set.fathers = <<1, 1, 0>>
    /\ \A e \in {"x", "y", "z"} : get_father(disjoint_set, e) = Some("y")

====
